---- MODULE Spec2Model ----
(***************************************************************************)
(* Model of the adaptive quadrature engine of main.py: the constructor of  *)
(* SolutionMethod and the calc() loops of the five rule classes.           *)
(*                                                                         *)
(* Python floats and sympy Floats are modelled as exact rationals          *)
(* <<numerator, denominator>> in lowest terms with a positive denominator: *)
(* the model follows the arithmetic the code writes down, not the rounding *)
(* of the machine.                                                         *)
(*                                                                         *)
(* A behaviour holds two executions of the program (Runs), made one after  *)
(* the other on the same equation, interval and starting n; each has its   *)
(* own rule class and epsilon.  Properties comparing two runs read both.   *)
(***************************************************************************)
EXTENDS Integers, Sequences, FiniteSets

VARIABLES
    equation,   \* coefficients <<c0, c1, c2, c3>> of equation_func
    a,          \* lower limit given to the constructor
    b,          \* upper limit given to the constructor
    n0,         \* starting partition count given to the constructor (self._n)
    method,     \* method[r]: the rule class instantiated by run r
    epsilon,    \* epsilon[r]: the tolerance given to the constructor
    k,          \* k[r]: self._k, set by the constructor (0 before)
    self_h,     \* self_h[r]: self._h, set by the constructor (0 before)
    pc,         \* pc[r]: "new", "constructed", "loop" (in while True), "done", "failed"
    error,      \* error[r]: which assertion of __init__ failed
    n,          \* n[r]: the local n of calc()
    first,      \* first[r]: integral_value_first
    zero,       \* zero[r]: integral_value_zero
    hist        \* hist[r]: history, per finished pass the n it used and its estimate

vars == <<equation, a, b, n0, method, epsilon, k, self_h, pc, error, n, first, zero, hist>>

Runs == {1, 2}

\* Passes of the while loop a run of the model may make.
MaxPasses == 4

----------------------------------------------------------------------------
\* Rational arithmetic

Abs(i) == IF i < 0 THEN -i ELSE i

RECURSIVE GCD(_, _)
GCD(i, j) == IF j = 0 THEN i ELSE GCD(j, i % j)

Norm(p, q) ==
    LET g == GCD(Abs(p), Abs(q))
        s == IF q < 0 THEN -1 ELSE 1
    IN  <<(s * p) \div g, (s * q) \div g>>

Rat(i) == <<i, 1>>

RAdd(x, y) ==
    LET g == GCD(x[2], y[2])
    IN  Norm(x[1] * (y[2] \div g) + y[1] * (x[2] \div g), (x[2] \div g) * y[2])

RNeg(x) == <<-x[1], x[2]>>

RSub(x, y) == RAdd(x, RNeg(y))

RMul(x, y) ==
    LET g1 == GCD(Abs(x[1]), y[2])
        g2 == GCD(Abs(y[1]), x[2])
    IN  <<(x[1] \div g1) * (y[1] \div g2), (x[2] \div g2) * (y[2] \div g1)>>

RDiv(x, m) == RMul(x, <<1, m>>)

RAbs(x) == <<Abs(x[1]), x[2]>>

RLt(x, y) ==
    LET g == GCD(x[2], y[2])
    IN  x[1] * (y[2] \div g) < y[1] * (x[2] \div g)

RLe(x, y) == ~RLt(y, x)

----------------------------------------------------------------------------
\* Inputs

\* Polynomials c0 + c1 x + c2 x^2 + c3 x^3 of degree 0 to 3; x^2 is the second
\* equation of main().
Equations ==
    { <<1, 0, 0, 0>>, <<0, 1, 0, 0>>, <<1, 2, 0, 0>>, <<0, 0, 1, 0>>,
      <<1, -2, 3, 0>>, <<0, 0, 0, 1>>, <<1, -1, 0, 1>>, <<2, -1, -2, 1>> }

LowerLimits == -1 .. 1

UpperLimits == 0 .. 1

StartCounts == {1, 2, 3, 4}

Epsilons == { <<-1, 1>>, <<0, 1>>, <<1, 100>>, <<1, 4>>, <<1, 2>>, <<2, 1>> }

Methods == {"RectangleLeft", "RectangleRight", "RectangleMiddle", "Trapeze", "Simpson"}

----------------------------------------------------------------------------
\* The program

\* func.subs(x, x_i).evalf()
Subs(f, x) ==
    RAdd(RMul(RAdd(RMul(RAdd(RMul(Rat(f[4]), x), Rat(f[3])), x), Rat(f[2])), x), Rat(f[1]))

\* Mutant of OrderOf: every rule class passes Simpson's k.
OrderOfSimpson(m) == 4

\* The k each rule class passes to its base constructor.
OrderOf(m) ==
    CASE m = "RectangleLeft" -> 1
      [] m = "RectangleRight" -> 1
      [] m = "RectangleMiddle" -> 2
      [] m = "Trapeze" -> 2
      [] m = "Simpson" -> 4

\* Mutant of InitError: the tolerance assertion written as epsilon >= 0.
InitErrorAcceptsZero(lo, hi, eps) ==
    IF ~(lo # hi) THEN "distinct"
    ELSE IF ~(lo < hi) THEN "order"
    ELSE IF RLt(eps, Rat(0)) THEN "tolerance"
    ELSE "none"

\* The assertions of SolutionMethod.__init__, in their order.
InitError(lo, hi, eps) ==
    IF ~(lo # hi) THEN "distinct"
    ELSE IF ~(lo < hi) THEN "order"
    ELSE IF ~RLt(Rat(0), eps) THEN "tolerance"
    ELSE "none"

\* h = (self._b - self._a) / n
Step(lo, hi, cnt) == Norm(hi - lo, cnt)

\* The for loops.  Each adds one term per index to integral_value_first; the
\* operators below give the sum of the terms of the indices i .. j - 1, which
\* the pass adds to the value integral_value_first has when the loop starts.
\* The additions are exact, so the sum is split in halves to keep the
\* evaluation shallow.
RECURSIVE RectangleLoop(_, _, _, _, _)
RectangleLoop(f, lo, h, i, j) ==
    IF i >= j THEN Rat(0)
    ELSE IF j = i + 1 THEN Subs(f, RAdd(Rat(lo), RMul(h, Rat(i))))
    ELSE LET mid == (i + j) \div 2
         IN  RAdd(RectangleLoop(f, lo, h, i, mid), RectangleLoop(f, lo, h, mid, j))

RECURSIVE RectangleRightLoop(_, _, _, _, _)
RectangleRightLoop(f, lo, h, i, j) ==
    IF i >= j THEN Rat(0)
    ELSE IF j = i + 1 THEN Subs(f, RAdd(RAdd(Rat(lo), h), RMul(h, Rat(i))))
    ELSE LET mid == (i + j) \div 2
         IN  RAdd(RectangleRightLoop(f, lo, h, i, mid), RectangleRightLoop(f, lo, h, mid, j))

RECURSIVE RectangleMiddleLoop(_, _, _, _, _)
RectangleMiddleLoop(f, lo, h, i, j) ==
    IF i >= j THEN Rat(0)
    ELSE IF j = i + 1 THEN Subs(f, RAdd(RAdd(Rat(lo), RDiv(h, 2)), RMul(h, Rat(i))))
    ELSE LET mid == (i + j) \div 2
         IN  RAdd(RectangleMiddleLoop(f, lo, h, i, mid), RectangleMiddleLoop(f, lo, h, mid, j))

\* Mutant of SimpsonLoop: the weights 2 and 4 exchanged.
RECURSIVE SimpsonLoopSwapped(_, _, _, _, _)
SimpsonLoopSwapped(f, lo, h, i, j) ==
    IF i >= j THEN Rat(0)
    ELSE IF j = i + 1
         THEN IF i % 2 = 0
              THEN RMul(Rat(4), Subs(f, RAdd(Rat(lo), RMul(h, Rat(i)))))
              ELSE RMul(Rat(2), Subs(f, RAdd(Rat(lo), RMul(h, Rat(i)))))
    ELSE LET mid == (i + j) \div 2
         IN  RAdd(SimpsonLoopSwapped(f, lo, h, i, mid), SimpsonLoopSwapped(f, lo, h, mid, j))

RECURSIVE SimpsonLoop(_, _, _, _, _)
SimpsonLoop(f, lo, h, i, j) ==
    IF i >= j THEN Rat(0)
    ELSE IF j = i + 1
         THEN IF i % 2 = 0
              THEN RMul(Rat(2), Subs(f, RAdd(Rat(lo), RMul(h, Rat(i)))))
              ELSE RMul(Rat(4), Subs(f, RAdd(Rat(lo), RMul(h, Rat(i)))))
    ELSE LET mid == (i + j) \div 2
         IN  RAdd(SimpsonLoop(f, lo, h, i, mid), SimpsonLoop(f, lo, h, mid, j))

\* Mutant of SimpsonPass: the sum scaled by h / 2 instead of h / 3.
SimpsonPassHalfStep(f, lo, hi, cnt, acc) ==
    LET h == Step(lo, hi, cnt)
        s == RAdd(acc, SimpsonLoop(f, lo, h, 1, cnt))
        e == RAdd(Subs(f, Rat(lo)), Subs(f, Rat(hi)))
    IN  RMul(RAdd(s, e), RDiv(h, 2))

\* One pass of each calc(): the value of integral_value_first after the pass,
\* given its value acc when the pass starts.
RectanglePass(f, lo, hi, cnt, acc) ==
    LET h == Step(lo, hi, cnt)
    IN  RMul(RAdd(acc, RectangleLoop(f, lo, h, 0, cnt)), h)

RectangleRightPass(f, lo, hi, cnt, acc) ==
    LET h == Step(lo, hi, cnt)
    IN  RMul(RAdd(acc, RectangleRightLoop(f, lo, h, 0, cnt)), h)

RectangleMiddlePass(f, lo, hi, cnt, acc) ==
    LET h == Step(lo, hi, cnt)
    IN  RMul(RAdd(acc, RectangleMiddleLoop(f, lo, h, 0, cnt)), h)

TrapezePass(f, lo, hi, cnt, acc) ==
    LET h == Step(lo, hi, cnt)
        s == RAdd(acc, RectangleLoop(f, lo, h, 1, cnt))
        e == RDiv(RAdd(Subs(f, Rat(lo)), Subs(f, Rat(hi))), 2)
    IN  RMul(RAdd(s, e), h)

SimpsonPass(f, lo, hi, cnt, acc) ==
    LET h == Step(lo, hi, cnt)
        s == RAdd(acc, SimpsonLoop(f, lo, h, 1, cnt))
        e == RAdd(Subs(f, Rat(lo)), Subs(f, Rat(hi)))
    IN  RMul(RAdd(s, e), RDiv(h, 3))

\* abs((integral_value_first - integral_value_zero) / (2 ** self._k - 1))
RungeError(new, old, order) == RAbs(RDiv(RSub(new, old), 2 ^ order - 1))

\* Mutant of Converged: <= in place of <.
ConvergedOrEqual(new, old, order, eps) == RLe(RungeError(new, old, order), eps)

\* ... < self._epsilon
Converged(new, old, order, eps) == RLt(RungeError(new, old, order), eps)

\* Mutant of Doubled: n += 2.
DoubledByAdding(cnt) == cnt + 2

\* Mutant of Doubled: n halved (rounded up) instead of doubled.
Halved(cnt) == (cnt + 1) \div 2

\* n *= 2
Doubled(cnt) == cnt * 2

\* The inputs of the two runs.  The second run uses the first run's rule or
\* Simpson's, and an epsilon no larger than the first run's.
Init ==
    /\ equation \in Equations
    /\ a \in LowerLimits
    /\ b \in UpperLimits
    /\ n0 \in StartCounts
    /\ method \in [Runs -> Methods]
    /\ method[2] \in {method[1], "Simpson"}
    /\ epsilon \in [Runs -> Epsilons]
    /\ RLe(epsilon[2], epsilon[1])
    /\ k = [r \in Runs |-> 0]
    /\ self_h = [r \in Runs |-> Rat(0)]
    /\ pc = [r \in Runs |-> "new"]
    /\ error = [r \in Runs |-> "none"]
    /\ n = [r \in Runs |-> 0]
    /\ first = [r \in Runs |-> Rat(0)]
    /\ zero = [r \in Runs |-> Rat(0)]
    /\ hist = [r \in Runs |-> <<>>]

\* The constructor of a rule class: SolutionMethod.__init__ with the class's k.
\* A failed assertion leaves no instance.
Construct(r) ==
    /\ pc[r] = "new"
    /\ \A q \in Runs : q < r => pc[q] \in {"done", "failed"}
    /\ LET e == InitError(a, b, epsilon[r])
       IN  IF e # "none"
           THEN /\ pc' = [pc EXCEPT ![r] = "failed"]
                /\ error' = [error EXCEPT ![r] = e]
                /\ UNCHANGED <<k, self_h>>
           ELSE /\ pc' = [pc EXCEPT ![r] = "constructed"]
                /\ k' = [k EXCEPT ![r] = OrderOf(method[r])]
                /\ self_h' = [self_h EXCEPT ![r] = Step(a, b, n0)]
                /\ UNCHANGED error
    /\ UNCHANGED <<equation, a, b, n0, method, epsilon, n, first, zero, hist>>

\* The statements of calc() before its while loop.
EnterCalc(r) ==
    /\ pc[r] = "constructed"
    /\ pc' = [pc EXCEPT ![r] = "loop"]
    /\ first' = [first EXCEPT ![r] = Rat(0)]
    /\ n' = [n EXCEPT ![r] = n0]
    /\ UNCHANGED <<equation, a, b, n0, method, epsilon, k, self_h, error, zero, hist>>

\* The body of while True, given the value new of integral_value_first that
\* the pass computes.
LoopBody(r, new) ==
    /\ zero' = [zero EXCEPT ![r] = first[r]]
    /\ first' = [first EXCEPT ![r] = new]
    /\ hist' = [hist EXCEPT ![r] = Append(@, <<n[r], new>>)]
    /\ IF Converged(new, first[r], k[r], epsilon[r])
       THEN /\ pc' = [pc EXCEPT ![r] = "done"]
            /\ UNCHANGED n
       ELSE /\ n' = [n EXCEPT ![r] = Doubled(n[r])]
            /\ UNCHANGED pc
    /\ UNCHANGED <<equation, a, b, n0, method, epsilon, k, self_h, error>>

\* Run r is at the top of the while loop of rule class m's calc(); the model
\* follows at most MaxPasses passes of a run.
InLoop(r, m) ==
    /\ pc[r] = "loop"
    /\ method[r] = m
    /\ Len(hist[r]) < MaxPasses

RectangleCalc(r) ==
    /\ InLoop(r, "RectangleLeft")
    /\ LoopBody(r, RectanglePass(equation, a, b, n[r], first[r]))

RectangleRightCalc(r) ==
    /\ InLoop(r, "RectangleRight")
    /\ LoopBody(r, RectangleRightPass(equation, a, b, n[r], first[r]))

RectangleMiddleCalc(r) ==
    /\ InLoop(r, "RectangleMiddle")
    /\ LoopBody(r, RectangleMiddlePass(equation, a, b, n[r], first[r]))

TrapezeCalc(r) ==
    /\ InLoop(r, "Trapeze")
    /\ LoopBody(r, TrapezePass(equation, a, b, n[r], first[r]))

SimpsonCalc(r) ==
    /\ InLoop(r, "Simpson")
    /\ LoopBody(r, SimpsonPass(equation, a, b, n[r], first[r]))

Next ==
    \E r \in Runs :
        \/ Construct(r)
        \/ EnterCalc(r)
        \/ RectangleCalc(r)
        \/ RectangleRightCalc(r)
        \/ RectangleMiddleCalc(r)
        \/ TrapezeCalc(r)
        \/ SimpsonCalc(r)

Spec == Init /\ [][Next]_vars

----------------------------------------------------------------------------
\* Reference values of the properties: the composite formulas as the
\* specification writes them, and the analytic integral.

Zero == Rat(0)

Third == Norm(1, 3)

\* The weighted value at index i of rule m's formula over cnt subintervals.
WeightedSample(m, f, lo, h, i, cnt) ==
    LET x == CASE m = "RectangleRight" -> RAdd(Rat(lo), RMul(h, Rat(i + 1)))
               [] m = "RectangleMiddle" -> RAdd(Rat(lo), RDiv(RMul(h, Rat(2 * i + 1)), 2))
               [] OTHER -> RAdd(Rat(lo), RMul(h, Rat(i)))
        w == CASE m = "Trapeze" /\ i \in {0, cnt} -> Norm(1, 2)
               [] m = "Simpson" /\ i \in {0, cnt} -> Rat(1)
               [] m = "Simpson" /\ i % 2 = 0 -> Rat(2)
               [] m = "Simpson" /\ i % 2 = 1 -> Rat(4)
               [] OTHER -> Rat(1)
    IN  RMul(w, Subs(f, x))

\* The sum of the weighted values at the indices i .. last.
RECURSIVE SumOver(_, _, _, _, _, _, _)
SumOver(m, f, lo, h, i, last, cnt) ==
    IF i > last THEN Zero
    ELSE IF i = last THEN WeightedSample(m, f, lo, h, i, cnt)
    ELSE LET mid == (i + last) \div 2
         IN  RAdd(SumOver(m, f, lo, h, i, mid, cnt), SumOver(m, f, lo, h, mid + 1, last, cnt))

\* The rule's composite formula at partition count cnt.
Composite(m, f, lo, hi, cnt) ==
    LET h == Norm(hi - lo, cnt)
    IN  CASE m \in {"RectangleLeft", "RectangleRight", "RectangleMiddle"} ->
                 RMul(h, SumOver(m, f, lo, h, 0, cnt - 1, cnt))
          [] m = "Trapeze" -> RMul(h, SumOver(m, f, lo, h, 0, cnt, cnt))
          [] m = "Simpson" -> RMul(RDiv(h, 3), SumOver(m, f, lo, h, 0, cnt, cnt))

\* The integral of c0 + c1 x + c2 x^2 + c3 x^3 over [lo, hi].
ExactIntegral(f, lo, hi) ==
    RAdd(RAdd(Rat(f[1] * (hi - lo)), Norm(f[2] * (hi ^ 2 - lo ^ 2), 2)),
         RAdd(Norm(f[3] * (hi ^ 3 - lo ^ 3), 3), Norm(f[4] * (hi ^ 4 - lo ^ 4), 4)))

Degree(f) == IF f[4] # 0 THEN 3 ELSE IF f[3] # 0 THEN 2 ELSE IF f[2] # 0 THEN 1 ELSE 0

\* The distance of run r's current estimate from the analytic integral.
Distance(r) == RAbs(RSub(first[r], ExactIntegral(equation, a, b)))

\* The order the specification gives each rule.
SpecOrder(m) ==
    IF m \in {"RectangleLeft", "RectangleRight"} THEN 1
    ELSE IF m \in {"RectangleMiddle", "Trapeze"} THEN 2 ELSE 4

PassCount(r) == Len(hist[r])

PassN(r, j) == hist[r][j][1]

PassEstimate(r, j) == hist[r][j][2]

\* The estimate pass j is compared with: 0 on the first pass.
PreviousEstimate(r, j) == IF j = 1 THEN Zero ELSE PassEstimate(r, j - 1)

\* Pass j's Runge estimate is below epsilon: |I_n - I_previous| < epsilon * (2^k - 1).
BelowEpsilon(r, j) ==
    RLt(RAbs(RSub(PassEstimate(r, j), PreviousEstimate(r, j))),
        RMul(epsilon[r], Rat(2 ^ SpecOrder(method[r]) - 1)))

Started(r) == pc[r] \in {"loop", "done"}

Returned(r) == pc[r] = "done"

\* Two finished runs of the same rule, the second with the smaller epsilon.
SmallerEpsilonPair ==
    /\ Returned(1) /\ Returned(2)
    /\ method[1] = method[2]
    /\ RLt(epsilon[2], epsilon[1])

----------------------------------------------------------------------------
\* C1: in every pass of calc(), first and later, the estimate the pass computes
\* is the rule's composite formula at that pass's n, whatever the previous
\* estimate was; so the returned value is the formula at the returned n.
C1_EstimateIsComposite ==
    \A r \in Runs : \A j \in 1 .. PassCount(r) :
        PassEstimate(r, j) = Composite(method[r], equation, a, b, PassN(r, j))

\* C2: calc() returns at the first pass whose Runge estimate
\* |I_n - I_previous| / (2^k - 1) is strictly below epsilon, and at no pass where
\* it is not, with I_previous = 0 on the first pass and the preceding pass's
\* estimate afterwards, and k = 1, 1, 2, 2, 4.
C2_StopsAtFirstPassBelowEpsilon ==
    \A r \in Runs :
        /\ Started(r) => k[r] = SpecOrder(method[r])
        /\ \A j \in 1 .. PassCount(r) :
               BelowEpsilon(r, j) <=> (Returned(r) /\ j = PassCount(r))
        /\ Returned(r) => PassCount(r) >= 1 /\ first[r] = PassEstimate(r, PassCount(r))
        /\ \A j \in 1 .. PassCount(r) :
               j = PassCount(r) => zero[r] = PreviousEstimate(r, j)

C2_Witness ==
    \E r \in Runs : Returned(r) /\ PassCount(r) >= 3 /\ method[r] = "Simpson"

\* C3: construction fails, and no value is ever computed, whenever a = b
\* (distinctness error), a > b (ordering error) or epsilon <= 0 (tolerance
\* error); the error raised is that of a condition that is violated (the first
\* of the three when epsilon <= 0 comes with a >= b); with a < b and
\* epsilon > 0 no error is raised.
C3_ConstructionRejects ==
    \A r \in Runs : pc[r] # "new" =>
        /\ a = b => pc[r] = "failed" /\ error[r] = "distinct"
        /\ a > b => pc[r] = "failed" /\ error[r] = "order"
        /\ RLe(epsilon[r], Zero) => pc[r] = "failed" /\ error[r] # "none"
        /\ (RLe(epsilon[r], Zero) /\ a < b) => error[r] = "tolerance"
        /\ error[r] = "tolerance" => RLe(epsilon[r], Zero)
        /\ (a < b /\ RLt(Zero, epsilon[r])) => pc[r] # "failed" /\ error[r] = "none"
        /\ pc[r] = "failed" => PassCount(r) = 0 /\ n[r] = 0 /\ first[r] = Zero

C3_Witness ==
    /\ pc[1] = "done"
    /\ pc[2] = "failed" /\ error[2] = "tolerance"

\* C4: for the midpoint rectangle and trapezoid rules and a polynomial of
\* degree <= 1, the value calc() returns is the exact integral.
C4_LinearExactOnReturn ==
    \A r \in Runs :
        (Returned(r) /\ method[r] \in {"RectangleMiddle", "Trapeze"} /\ Degree(equation) <= 1)
            => first[r] = ExactIntegral(equation, a, b)

\* C5 as stated: for Simpson's rule and every starting n >= 1, odd or even, the
\* first pass's estimate of a polynomial of degree <= 3 is the exact integral.
C5_SimpsonFirstPassExactAnyN ==
    \A r \in Runs :
        (method[r] = "Simpson" /\ PassCount(r) >= 1)
            => PassEstimate(r, 1) = ExactIntegral(equation, a, b)

\* C5 amended: the same for every even starting n.
C5_SimpsonFirstPassExactEvenN ==
    \A r \in Runs :
        (method[r] = "Simpson" /\ PassCount(r) >= 1 /\ n0 % 2 = 0)
            => PassEstimate(r, 1) = ExactIntegral(equation, a, b)

C5_Witness ==
    \E r \in Runs :
        /\ method[r] = "Simpson" /\ PassCount(r) >= 1 /\ n0 = 4
        /\ Degree(equation) = 3 /\ a = -1 /\ b = 1
        /\ PassEstimate(r, 1) # Zero

\* Scenario A: Simpson's rule on x^2 over [0, 1], n = 4, epsilon = 0.01.
ScenarioA(r) ==
    /\ equation = <<0, 0, 1, 0>> /\ a = 0 /\ b = 1 /\ n0 = 4
    /\ method[r] = "Simpson" /\ epsilon[r] = <<1, 100>>

C8_PartitionCountNonDecreasing ==
    SmallerEpsilonPair => n[2] >= n[1]

C8_Witness == SmallerEpsilonPair /\ n[2] > n[1]

\* C9: the working partition count is the starting n times 2^j, j the number
\* of passes that did not converge; pass j + 1 runs at that count, and the
\* returned count is the starting n times a power of two.
C9_PartitionCountIsDoubling ==
    \A r \in Runs : Started(r) =>
        /\ n[r] = n0 * 2 ^ (PassCount(r) - (IF Returned(r) THEN 1 ELSE 0))
        /\ \A j \in 1 .. PassCount(r) : PassN(r, j) = n0 * 2 ^ (j - 1)
        /\ Returned(r) => \E j \in 0 .. PassCount(r) : n[r] = n0 * 2 ^ j

C9_Witness == \E r \in Runs : Returned(r) /\ n0 = 4 /\ n[r] = 32

\* Scenario B: the left rectangle rule on x^2 over [0, 1], n = 4,
\* epsilon = 0.01, in run 1; run 2 is Simpson's rule on the same input.
ScenarioB ==
    /\ equation = <<0, 0, 1, 0>> /\ a = 0 /\ b = 1 /\ n0 = 4
    /\ method[1] = "RectangleLeft" /\ epsilon[1] = <<1, 100>>
    /\ method[2] = "Simpson" /\ epsilon[2] = <<1, 100>>

\* C10: scenario B doubles at least twice before it stops, returns a value
\* strictly below 1/3 and a partition count strictly greater than Simpson's.
C10_ScenarioB ==
    ScenarioB =>
        /\ Returned(1) => /\ PassCount(1) - 1 >= 2
                          /\ n[1] >= 4 * n0
                          /\ RLt(first[1], Third)
        /\ (Returned(1) /\ Returned(2)) => n[1] > n[2]

C10_Witness == ScenarioB /\ Returned(1) /\ Returned(2)

====
